---- MODULE Spec2Model ----
(***************************************************************************)
(* XDBClient (src/src/xdb-client.ts): one TCP socket, newline-delimited    *)
(* JSON, a stream buffer and a FIFO of response resolvers.                 *)
(*                                                                         *)
(* Text is a sequence of one-character strings.  The server's byte stream  *)
(* is any member of a bounded set of streams and is delivered to the       *)
(* client in chunks of arbitrary size by the data events.                  *)
(***************************************************************************)
EXTENDS Integers, Sequences, FiniteSets, TLC

VARIABLES
    options,        \* the argument of the constructor
    host,           \* XDBClient.host
    port,           \* XDBClient.port
    isConnected,    \* XDBClient.isConnected
    responseQueue,  \* XDBClient.responseQueue: resolvers, named by command id
    streamBuffer,   \* XDBClient.streamBuffer
    connects,       \* one promise per connect() call (its listeners close over it)
    connecting,     \* a connection attempt is in progress
    callbacks,      \* the connect() calls whose once('connect') callback has not run
    cmds,           \* one promise per sendCommand() call, in call order
    writes,         \* socket.write calls: the command ids written, in order
    sent,           \* socket.write calls: the text written, in order
    dials,          \* socket.connect calls: the port and host given, in order
    closers,        \* close() calls that dispatched an exit request
    ends,           \* the number of socket.end() calls
    received,       \* every byte delivered by data events so far
    emitted,        \* every non-blank complete line handled, with the command it answered
    errored,        \* a socket 'error' event has been handled
    closed,         \* a socket 'close' event has been handled
    lastEvent       \* what the last step was and what it did

vars == <<options, host, port, isConnected, responseQueue, streamBuffer, connects,
          connecting, callbacks, cmds, writes, sent, dials, closers, ends,
          received, emitted, errored, closed, lastEvent>>

----------------------------------------------------------------------------
(* Bounds *)

MaxCmds == 2
MaxLines == 2
MaxChunk == 5
MaxConnects == 2

----------------------------------------------------------------------------
(* Text *)

NL == "\n"
SP == " "
Digits == {"0", "1", "2"}

DigitVal(c) == CASE c = "0" -> 0 [] c = "1" -> 1 [] c = "2" -> 2

Min(a, b) == IF a < b THEN a ELSE b

Front(s) == SubSeq(s, 1, Len(s) - 1)

Last(s) == s[Len(s)]

\* String.prototype.split('\n'): the pieces between the newlines; never empty.
RECURSIVE Split(_)
Split(s) ==
    IF \A i \in 1..Len(s) : s[i] # NL
    THEN <<s>>
    ELSE LET k == CHOOSE i \in 1..Len(s) :
                      s[i] = NL /\ \A j \in 1..(i - 1) : s[j] # NL
         IN <<SubSeq(s, 1, k - 1)>> \o Split(SubSeq(s, k + 1, Len(s)))

\* String.prototype.trim(): strip the white space at both ends.
RECURSIVE TrimLeft(_)
TrimLeft(s) == IF s # <<>> /\ Head(s) = SP THEN TrimLeft(Tail(s)) ELSE s

RECURSIVE TrimRight(_)
TrimRight(s) == IF s # <<>> /\ Last(s) = SP THEN TrimRight(Front(s)) ELSE s

Trim(s) == TrimRight(TrimLeft(s))

RECURSIVE Decimal(_)
Decimal(s) == IF s = <<>> THEN 0 ELSE 10 * Decimal(Front(s)) + DigitVal(Last(s))

QUOTE == "\""

\* A JSON string at the head of s: the text between two quotes (the
\* alphabet has no backslash), and what follows the closing quote.
ParseString(s) ==
    IF s = <<>> \/ Head(s) # QUOTE \/ \A i \in 2..Len(s) : s[i] # QUOTE
    THEN [ok |-> FALSE, val |-> <<>>, rest |-> <<>>]
    ELSE LET k == CHOOSE i \in 2..Len(s) :
                      s[i] = QUOTE /\ \A j \in 2..(i - 1) : s[j] # QUOTE
         IN [ok |-> TRUE, val |-> SubSeq(s, 2, k - 1),
             rest |-> SubSeq(s, k + 1, Len(s))]

\* The members of a JSON object after its opening brace or after a comma:
\* "key" : "value" pairs up to the closing brace.  acc is what was read.
RECURSIVE ParseMembers(_, _)
ParseMembers(s, acc) ==
    LET fail == [ok |-> FALSE, val |-> <<>>, rest |-> <<>>]
        key == ParseString(TrimLeft(s))
        colon == TrimLeft(key.rest)
        value == ParseString(TrimLeft(Tail(colon)))
        after == TrimLeft(value.rest)
        read == Append(acc, [key |-> key.val, value |-> value.val])
    IN IF ~key.ok \/ colon = <<>> \/ Head(colon) # ":" THEN fail
       ELSE IF ~value.ok \/ after = <<>> THEN fail
       ELSE IF Head(after) = "}" THEN [ok |-> TRUE, val |-> read, rest |-> Tail(after)]
       ELSE IF Head(after) = "," THEN ParseMembers(Tail(after), read)
       ELSE fail

\* A JSON object at the head of s, as the sequence of its members.
ParseObject(s) ==
    LET inner == TrimLeft(Tail(s))
    IN IF inner # <<>> /\ Head(inner) = "}"
       THEN [ok |-> TRUE, val |-> <<>>, rest |-> Tail(inner)]
       ELSE ParseMembers(inner, <<>>)

\* JSON.parse on the texts of this model: optional white space, then a
\* number without a leading zero or an object whose members are strings,
\* then optional white space.  Anything else throws a SyntaxError.
JSONParse(line) ==
    LET t == Trim(line)
        isNumber == /\ t # <<>>
                    /\ \A i \in 1..Len(t) : t[i] \in Digits
                    /\ (Len(t) > 1 => t[1] # "0")
        object == ParseObject(t)
    IN IF isNumber THEN [ok |-> TRUE, val |-> Decimal(t)]
       ELSE IF t # <<>> /\ Head(t) = "{" /\ object.ok /\ object.rest = <<>>
       THEN [ok |-> TRUE, val |-> object.val]
       ELSE [ok |-> FALSE, val |-> 0]

----------------------------------------------------------------------------
(* JavaScript values and the request payloads *)

JSUndefined == [t |-> "undefined", s |-> <<>>, n |-> 0, o |-> <<>>]
JSNull == [t |-> "null", s |-> <<>>, n |-> 0, o |-> <<>>]
JSString(x) == [t |-> "string", s |-> x, n |-> 0, o |-> <<>>]
JSNumber(k) == [t |-> "number", s |-> <<>>, n |-> k, o |-> <<>>]

\* A BigInt, a value JSON.stringify cannot serialise.
JSBigInt(k) == [t |-> "bigint", s |-> <<>>, n |-> k, o |-> <<>>]

\* An object: its own properties in insertion order.
JSObject(members) == [t |-> "object", s |-> <<>>, n |-> 0, o |-> members]

Member(k, v) == [key |-> k, value |-> v]

DigitChar(d) ==
    CASE d = 0 -> "0" [] d = 1 -> "1" [] d = 2 -> "2" [] d = 3 -> "3"
      [] d = 4 -> "4" [] d = 5 -> "5" [] d = 6 -> "6" [] d = 7 -> "7"
      [] d = 8 -> "8" [] d = 9 -> "9"

RECURSIVE ToDigits(_)
ToDigits(k) ==
    IF k < 10 THEN <<DigitChar(k)>>
    ELSE ToDigits(k \div 10) \o <<DigitChar(k % 10)>>

\* JSON.stringify of a value: a property whose value is undefined is left
\* out, the others are written in insertion order, without white space.
RECURSIVE JSONStringify(_)
RECURSIVE StringifyMembers(_, _)
StringifyMembers(members, first) ==
    IF members = <<>> THEN <<>>
    ELSE LET m == Head(members)
         IN IF m.value.t = "undefined"
            THEN StringifyMembers(Tail(members), first)
            ELSE (IF first THEN <<>> ELSE <<",">>)
                 \o <<QUOTE>> \o m.key \o <<QUOTE, ":">> \o JSONStringify(m.value)
                 \o StringifyMembers(Tail(members), FALSE)

JSONStringify(v) ==
    CASE v.t = "string" -> <<QUOTE>> \o v.s \o <<QUOTE>>
      [] v.t = "number" -> ToDigits(v.n)
      [] v.t = "null" -> <<"n", "u", "l", "l">>
      [] v.t = "object" -> <<"{">> \o StringifyMembers(v.o, TRUE) \o <<"}">>

\* JSON.stringify(v) throws a TypeError: v is a BigInt or holds one.
RECURSIVE StringifyThrows(_)
StringifyThrows(v) ==
    \/ v.t = "bigint"
    \/ /\ v.t = "object"
       /\ \E i \in 1..Len(v.o) : StringifyThrows(v.o[i].value)

\* Property names and action names.
ACTION_KEY == <<"a", "c", "t", "i", "o", "n">>
COLLECTION_KEY == <<"c", "o", "l", "l", "e", "c", "t", "i", "o", "n">>
DATA_KEY == <<"d", "a", "t", "a">>
QUERY_KEY == <<"q", "u", "e", "r", "y">>
LIMIT_KEY == <<"l", "i", "m", "i", "t">>
ID_KEY == <<"i", "d">>
UNDERSCORE_ID == <<"_", "i", "d">>
INSERT == <<"i", "n", "s", "e", "r", "t">>
UPDATE == <<"u", "p", "d", "a", "t", "e">>
UPSERT == <<"u", "p", "s", "e", "r", "t">>
FIND == <<"f", "i", "n", "d">>
DELETE == <<"d", "e", "l", "e", "t", "e">>
COUNT == <<"c", "o", "u", "n", "t">>
SNAPSHOT == <<"s", "n", "a", "p", "s", "h", "o", "t">>
EXIT == <<"e", "x", "i", "t">>

\* insert(collection, data)
InsertRequest(collection, data) ==
    JSObject(<<Member(ACTION_KEY, JSString(INSERT)),
               Member(COLLECTION_KEY, collection),
               Member(DATA_KEY, data)>>)

\* Mutant: the data is sent as it was given, _id included.
CleanDataKeepsId(data) == data

\* const { _id, ...cleanData } = data: the other properties, in order.
CleanData(data) ==
    JSObject(SelectSeq(data.o, LAMBDA m : m.key # UNDERSCORE_ID))

\* cleanData && typeof cleanData === 'object' ? cleanData : {}
PayloadData(cleanData) ==
    IF cleanData.t = "object" THEN cleanData ELSE JSObject(<<>>)

\* update(collection, id, data)
UpdateRequest(collection, id, data) ==
    JSObject(<<Member(ACTION_KEY, JSString(UPDATE)),
               Member(COLLECTION_KEY, collection),
               Member(ID_KEY, id),
               Member(DATA_KEY, PayloadData(CleanData(data)))>>)

\* id === undefined ? null : id
SafeId(id) == IF id = JSUndefined THEN JSNull ELSE id

\* upsert(collection, id, data)
UpsertRequest(collection, id, data) ==
    JSObject(<<Member(ACTION_KEY, JSString(UPSERT)),
               Member(COLLECTION_KEY, collection),
               Member(ID_KEY, SafeId(id)),
               Member(DATA_KEY, PayloadData(CleanData(data)))>>)

\* A parameter with a default value: the default replaces undefined.
WithDefault(v, d) == IF v = JSUndefined THEN d ELSE v

\* Mutant: the limit is left out of the request.
FindRequestNoLimit(collection, query, limit) ==
    JSObject(<<Member(ACTION_KEY, JSString(FIND)),
               Member(COLLECTION_KEY, collection),
               Member(QUERY_KEY, WithDefault(query, JSObject(<<>>)))>>)

\* find(collection, query = {}, limit = 0)
FindRequest(collection, query, limit) ==
    JSObject(<<Member(ACTION_KEY, JSString(FIND)),
               Member(COLLECTION_KEY, collection),
               Member(QUERY_KEY, WithDefault(query, JSObject(<<>>))),
               Member(LIMIT_KEY, WithDefault(limit, JSNumber(0)))>>)

\* delete(collection, id)
DeleteRequest(collection, id) ==
    JSObject(<<Member(ACTION_KEY, JSString(DELETE)),
               Member(COLLECTION_KEY, collection),
               Member(ID_KEY, id)>>)

\* count(collection)
CountRequest(collection) ==
    JSObject(<<Member(ACTION_KEY, JSString(COUNT)),
               Member(COLLECTION_KEY, collection)>>)

\* snapshot()
SnapshotRequest == JSObject(<<Member(ACTION_KEY, JSString(SNAPSHOT))>>)

\* The request of close().
ExitRequest == JSObject(<<Member(ACTION_KEY, JSString(EXIT))>>)

\* JSON.stringify(payload) + '\n'
Message(payload) == JSONStringify(payload) \o <<NL>>

----------------------------------------------------------------------------
(* Construction *)

DEFAULT_HOST == "127.0.0.1"
FIXED_PORT == 8080

\* An optional property of the options object: absent, or present with a value.
Absent == [given |-> FALSE, v |-> ""]
Given(x) == [given |-> TRUE, v |-> x]

\* options.host || DEFAULT_HOST: an absent or empty host is falsy.
HostOf(opts) ==
    IF opts.host.given /\ opts.host.v # "" THEN opts.host.v
    ELSE DEFAULT_HOST

\* Mutant: a port given in the options is taken.
NewTakesPort(opts) ==
    [host |-> HostOf(opts),
     port |-> IF opts.port # 0 THEN opts.port ELSE FIXED_PORT]

\* new XDBClient(options)
New(opts) == [host |-> HostOf(opts), port |-> FIXED_PORT]

----------------------------------------------------------------------------
(* Promises *)

ErrNotConnected == "Client is not connected to XDB Server."
ErrMalformed == "Critical: Malformed JSON received."
ErrSerialize == "TypeError: Do not know how to serialize a BigInt"
TransportErrors == {"ECONNREFUSED", "ECONNRESET"}

\* calls counts the invocations of resolve and reject: 0, 1, or 2 for "more
\* than once".
NewPromise == [st |-> "pending", val |-> 0, err |-> "", calls |-> 0]

Called(p) == [p EXCEPT !.calls = Min(@ + 1, 2)]

\* resolve(v): the first settlement wins; later calls are ignored by the promise.
Resolve(p, v) ==
    IF p.st = "pending"
    THEN Called([p EXCEPT !.st = "resolved", !.val = v])
    ELSE Called(p)

\* Mutant: a rejection replaces an earlier settlement.
RejectOverrides(p, e) == Called([p EXCEPT !.st = "rejected", !.err = e])

\* reject(e)
Reject(p, e) ==
    IF p.st = "pending"
    THEN Called([p EXCEPT !.st = "rejected", !.err = e])
    ELSE Called(p)

----------------------------------------------------------------------------
(* The client object, as a record the operations map to a new record.      *)
(* done and logs collect what one event does: the commands it settles and  *)
(* the log lines it prints.                                                *)

Client ==
    [isConnected |-> isConnected, responseQueue |-> responseQueue,
     streamBuffer |-> streamBuffer, connects |-> connects, cmds |-> cmds,
     writes |-> writes, sent |-> sent, emitted |-> emitted,
     done |-> <<>>, logs |-> <<>>]

\* Mutant: pop() in place of shift(), the newest resolver answers first.
QueuePopLast(q) ==
    IF q = <<>> THEN [head |-> 0, rest |-> <<>>]
                ELSE [head |-> Last(q), rest |-> Front(q)]

\* Array.prototype.shift(): the first element (0 for undefined) and the rest.
QueueShift(q) ==
    IF q = <<>> THEN [head |-> 0, rest |-> <<>>]
                ELSE [head |-> Head(q), rest |-> Tail(q)]

\* Array.prototype.push().
QueuePush(q, id) == Append(q, id)

\* lines.pop() || '': the text after the last newline stays in the buffer.
Retained(lines) == Last(lines)

\* Mutant: the text after the last newline is handled as a line too.
CompleteWithLast(lines) == lines

\* What is left in lines after lines.pop(): the complete lines.
Complete(lines) == Front(lines)

\* Mutant: only the empty line is skipped, a line of spaces is a message.
IsBlankNoTrim(line) == line = <<>>

\* line.trim() === ''
IsBlank(line) == Trim(line) = <<>>

\* Mutant: a reply whose status member is "error" rejects the resolver.
AnswerByStatus(p, line) ==
    LET json == JSONParse(line)
        failed == \E i \in 1..Len(json.val) :
                     /\ json.val[i].key = <<"s", "t", "a", "t", "u", "s">>
                     /\ json.val[i].value = <<"e", "r", "r", "o", "r">>
    IN IF json.ok /\ ~failed THEN Resolve(p, json.val)
       ELSE IF json.ok THEN Reject(p, "error")
       ELSE Reject(p, ErrMalformed)

\* Mutant: the parse error is swallowed and the resolver is resolved.
AnswerSwallow(p, line) ==
    LET json == JSONParse(line)
    IN Resolve(p, json.val)

\* The try/catch of handleStreamData: what the resolver taken for line gets.
Answer(p, line) ==
    LET json == JSONParse(line)
    IN IF json.ok THEN Resolve(p, json.val) ELSE Reject(p, ErrMalformed)

\* Mutant: a line that finds no resolver is put back in front of the buffer.
HandleLineKeeps(c, line) ==
    IF IsBlank(line) THEN c
    ELSE LET sh == QueueShift(c.responseQueue)
             id == sh.head
         IN IF id = 0
            THEN [c EXCEPT !.streamBuffer = line \o <<NL>> \o @]
            ELSE [c EXCEPT !.responseQueue = sh.rest,
                           !.cmds[id].p = Answer(@, line),
                           !.emitted = Append(@, [line |-> line, cmd |-> id]),
                           !.done = Append(@, id),
                           !.logs = IF JSONParse(line).ok THEN @
                                    ELSE Append(@, "ERROR Protocol violation")]

\* The body of the for loop of handleStreamData, for one line.
HandleLine(c, line) ==
    IF IsBlank(line) THEN c
    ELSE LET sh == QueueShift(c.responseQueue)
             id == sh.head
         IN IF id = 0
            THEN [c EXCEPT !.responseQueue = sh.rest,
                           !.emitted = Append(@, [line |-> line, cmd |-> 0])]
            ELSE [c EXCEPT !.responseQueue = sh.rest,
                           !.cmds[id].p = Answer(@, line),
                           !.emitted = Append(@, [line |-> line, cmd |-> id]),
                           !.done = Append(@, id),
                           !.logs = IF JSONParse(line).ok THEN @
                                    ELSE Append(@, "ERROR Protocol violation")]

\* Mutant: only the first complete line of a chunk is handled.
HandleFirstLineOnly(c, lines) ==
    IF lines = <<>> THEN c ELSE HandleLine(c, Head(lines))

RECURSIVE HandleLines(_, _)
HandleLines(c, lines) ==
    IF lines = <<>> THEN c
    ELSE HandleLines(HandleLine(c, Head(lines)), Tail(lines))

\* Mutant: chunks are ignored once the client is not connected.
HandleStreamDataIfConnected(c, chunk) ==
    IF ~c.isConnected THEN c
    ELSE LET lines == Split(c.streamBuffer \o chunk)
         IN HandleLines([c EXCEPT !.streamBuffer = Retained(lines)], Complete(lines))

\* handleStreamData(chunk)
HandleStreamData(c, chunk) ==
    LET lines == Split(c.streamBuffer \o chunk)
    IN HandleLines([c EXCEPT !.streamBuffer = Retained(lines)], Complete(lines))

\* Mutant: every error gets the generic diagnostic, the hint is never printed.
ErrorLogsNoHint(err) == <<"ERROR Socket error occurred">>

\* Mutant: the hint is printed for every error.
ErrorLogsAlwaysHint(err) ==
    <<"ERROR Failed to connect", "WARN Hint: Is the XDB server running?">>

\* The log lines of the socket 'error' listener.
ErrorLogs(err) ==
    IF err = "ECONNREFUSED"
    THEN <<"ERROR Failed to connect", "WARN Hint: Is the XDB server running?">>
    ELSE <<"ERROR Socket error occurred">>

\* Mutant: the listener rejects every pending entry, not only the oldest.
RECURSIVE RejectEvery(_, _)
RejectEvery(c, err) ==
    IF c.responseQueue = <<>> THEN c
    ELSE RejectEvery([c EXCEPT !.responseQueue = Tail(@),
                               !.cmds[Head(c.responseQueue)].p = Reject(@, err),
                               !.done = Append(@, Head(c.responseQueue))], err)

HandleErrorDrains(c, i, err) ==
    LET c1 == [c EXCEPT !.isConnected = FALSE, !.logs = @ \o ErrorLogs(err)]
    IN IF Len(c1.responseQueue) = 0
       THEN [c1 EXCEPT !.connects[i] = Reject(@, err)]
       ELSE RejectEvery(c1, err)

\* The socket 'error' listener registered by the i-th connect() call.
HandleError(c, i, err) ==
    LET c1 == [c EXCEPT !.isConnected = FALSE, !.logs = @ \o ErrorLogs(err)]
    IN IF Len(c1.responseQueue) = 0
       THEN [c1 EXCEPT !.connects[i] = Reject(@, err)]
       ELSE LET sh == QueueShift(c1.responseQueue)
            IN [c1 EXCEPT !.responseQueue = sh.rest,
                          !.cmds[sh.head].p = Reject(@, err),
                          !.done = Append(@, sh.head)]

\* Mutant: the listener also forgets the pending entries and the buffer.
HandleCloseResets(c) ==
    [c EXCEPT !.isConnected = FALSE, !.responseQueue = <<>>, !.streamBuffer = <<>>]

\* The socket 'close' listener.
HandleClose(c) == [c EXCEPT !.isConnected = FALSE]

\* The callback given to socket.connect by the i-th connect() call.
HandleConnected(c, i) ==
    [c EXCEPT !.isConnected = TRUE,
              !.connects[i] = Resolve(@, 0),
              !.logs = Append(@, "INFO Connection established")]

\* Mutant: the resolver is pushed before the connectivity check.
SendCommandPushFirst(c, payload) ==
    LET id == Len(c.cmds) + 1
    IN IF ~c.isConnected
       THEN [c EXCEPT !.cmds = Append(@, [accepted |-> FALSE,
                                          p |-> Reject(NewPromise, ErrNotConnected)]),
                      !.responseQueue = QueuePush(@, id)]
       ELSE IF StringifyThrows(payload)
       THEN [c EXCEPT !.cmds = Append(@, [accepted |-> FALSE,
                                          p |-> Reject(NewPromise, ErrSerialize)]),
                      !.responseQueue = QueuePush(@, id)]
       ELSE [c EXCEPT !.cmds = Append(@, [accepted |-> TRUE, p |-> NewPromise]),
                      !.responseQueue = QueuePush(@, id),
                      !.writes = Append(@, id),
                      !.sent = Append(@, Message(payload))]

\* Mutant: an accepted dispatch starts from an empty stream buffer.
SendCommandClearsBuffer(c, payload) ==
    LET id == Len(c.cmds) + 1
    IN IF ~c.isConnected
       THEN [c EXCEPT !.cmds = Append(@, [accepted |-> FALSE,
                                          p |-> Reject(NewPromise, ErrNotConnected)])]
       ELSE IF StringifyThrows(payload)
       THEN [c EXCEPT !.cmds = Append(@, [accepted |-> FALSE,
                                          p |-> Reject(NewPromise, ErrSerialize)]),
                      !.responseQueue = QueuePush(@, id)]
       ELSE [c EXCEPT !.cmds = Append(@, [accepted |-> TRUE, p |-> NewPromise]),
                      !.responseQueue = QueuePush(@, id),
                      !.streamBuffer = <<>>,
                      !.writes = Append(@, id),
                      !.sent = Append(@, Message(payload))]

\* sendCommand(payload): the new promise is cmds[id].  On a connected client
\* the resolver is pushed first; JSON.stringify comes next, and when it
\* throws the executor ends there: the promise is rejected with the
\* TypeError, the entry stays in the queue and nothing is written.
SendCommandOp(c, payload) ==
    LET id == Len(c.cmds) + 1
    IN IF ~c.isConnected
       THEN [c EXCEPT !.cmds = Append(@, [accepted |-> FALSE,
                                          p |-> Reject(NewPromise, ErrNotConnected)])]
       ELSE IF StringifyThrows(payload)
       THEN [c EXCEPT !.cmds = Append(@, [accepted |-> FALSE,
                                          p |-> Reject(NewPromise, ErrSerialize)]),
                      !.responseQueue = QueuePush(@, id)]
       ELSE [c EXCEPT !.cmds = Append(@, [accepted |-> TRUE, p |-> NewPromise]),
                      !.responseQueue = QueuePush(@, id),
                      !.writes = Append(@, id),
                      !.sent = Append(@, Message(payload))]

\* The bytes of a chunk are one-character strings for the ASCII bytes and
\* LEAD, CONT for the two bytes 0xC3 0xA9 that encode U+00E9 in UTF-8.
LEAD == "C3"
CONT == "A9"
E_ACUTE == "U+00E9"
REPLACEMENT == "U+FFFD"

\* chunk.toString(): the UTF-8 decoding of one Buffer on its own.  A lead
\* byte followed by its continuation byte is the character; a lead byte
\* without continuation (also at the end of the chunk) and a continuation
\* byte without lead are each decoded as U+FFFD.
RECURSIVE ChunkToString(_)
ChunkToString(chunk) ==
    IF chunk = <<>> THEN <<>>
    ELSE IF Head(chunk) = LEAD /\ Len(chunk) >= 2 /\ chunk[2] = CONT
    THEN <<E_ACUTE>> \o ChunkToString(Tail(Tail(chunk)))
    ELSE IF Head(chunk) \in {LEAD, CONT}
    THEN <<REPLACEMENT>> \o ChunkToString(Tail(chunk))
    ELSE <<Head(chunk)>> \o ChunkToString(Tail(chunk))

\* Every listener registered for an event runs, in registration order.
RECURSIVE DataListeners(_, _, _)
DataListeners(c, i, chunk) ==
    IF i > Len(c.connects) THEN c
    ELSE DataListeners(HandleStreamData(c, ChunkToString(chunk)), i + 1, chunk)

RECURSIVE ErrorListeners(_, _, _)
ErrorListeners(c, i, err) ==
    IF i > Len(c.connects) THEN c
    ELSE ErrorListeners(HandleError(c, i, err), i + 1, err)

\* The 'connect' event: the callbacks still registered run, oldest first.
RECURSIVE ConnectListeners(_, _)
ConnectListeners(c, cbs) ==
    IF cbs = <<>> THEN c
    ELSE ConnectListeners(HandleConnected(c, Head(cbs)), Tail(cbs))

RECURSIVE CloseListeners(_, _)
CloseListeners(c, i) ==
    IF i > Len(c.connects) THEN c
    ELSE CloseListeners(HandleClose(c), i + 1)

Install(c) ==
    /\ isConnected' = c.isConnected
    /\ responseQueue' = c.responseQueue
    /\ streamBuffer' = c.streamBuffer
    /\ connects' = c.connects
    /\ cmds' = c.cmds
    /\ writes' = c.writes
    /\ sent' = c.sent
    /\ emitted' = c.emitted

\* The record of a step: its kind, the error or the chunk size it carried,
\* the commands it settled and the log lines it printed.
Event(type, err, size, c) ==
    [type |-> type, err |-> err, size |-> size, done |-> c.done, logs |-> c.logs,
     call |-> [op |-> "", args |-> <<>>]]

----------------------------------------------------------------------------
(* The server's byte stream *)

LineSet ==
    { <<"1">>, <<"1", "2">>, <<"x">>, <<SP>> }

FragmentSet == { <<>>, <<"1">> }

RECURSIVE StreamsOf(_)
StreamsOf(n) ==
    IF n = 0 THEN { <<>> }
    ELSE StreamsOf(n - 1) \cup
         { l \o <<NL>> \o s : l \in LineSet, s \in StreamsOf(n - 1) }

Streams == { s \o f : s \in StreamsOf(MaxLines), f \in FragmentSet }

StreamPrefixes == UNION { { SubSeq(s, 1, n) : n \in 0..Len(s) } : s \in Streams }

\* The streams r can grow into by one chunk.
Continuations ==
    [r \in StreamPrefixes |->
        { p \in StreamPrefixes : /\ Len(p) > Len(r)
                                 /\ Len(p) <= Len(r) + MaxChunk
                                 /\ SubSeq(p, 1, Len(r)) = r }]

\* The server's replies as it words them: one object with a status member.
StatusKey == <<"s", "t", "a", "t", "u", "s">>
StatusOk == <<"o", "k">>
StatusError == <<"e", "r", "r", "o", "r">>

ReplyLine(status) ==
    <<"{", QUOTE>> \o StatusKey \o <<QUOTE, ":", QUOTE>> \o status \o <<QUOTE, "}">>

ReplyLineSet == { ReplyLine(StatusOk), ReplyLine(StatusError) }

\* The streams of up to n complete lines of a line set.
RECURSIVE StreamsOver(_, _)
StreamsOver(lineSet, n) ==
    IF n = 0 THEN { <<>> }
    ELSE StreamsOver(lineSet, n - 1) \cup
         { l \o <<NL>> \o s : l \in lineSet, s \in StreamsOver(lineSet, n - 1) }

PrefixesOf(streams) ==
    UNION { { SubSeq(s, 1, n) : n \in 0..Len(s) } : s \in streams }

\* The streams of a prefix-closed set that r can grow into by one chunk.
ContinuationsIn(prefixes) ==
    [r \in prefixes |->
        { p \in prefixes : /\ Len(p) > Len(r)
                           /\ Len(p) <= Len(r) + MaxChunk
                           /\ SubSeq(p, 1, Len(r)) = r }]

ReplyPrefixes == PrefixesOf(StreamsOver(ReplyLineSet, MaxLines))

ReplyContinuations == ContinuationsIn(ReplyPrefixes)

\* A server that sends short lines, well-formed or not.
ShortLineSet == { <<"1">>, <<"x">> }

ShortPrefixes == PrefixesOf(StreamsOver(ShortLineSet, MaxLines))

ShortContinuations == ContinuationsIn(ShortPrefixes)

\* A server whose replies hold a character of two UTF-8 bytes.
ByteLine == <<"{", QUOTE, "a", QUOTE, ":", QUOTE, LEAD, CONT, QUOTE, "}">>

ByteLineSet == { ByteLine, <<"1">> }

BytePrefixes == PrefixesOf(StreamsOver(ByteLineSet, MaxLines))

ByteContinuations == ContinuationsIn(BytePrefixes)

\* A server that answers every request it reads with one well-formed line,
\* in the order of the requests: the line "12" or the line "1".
ResponseTo(k) == IF k % 2 = 1 THEN <<"1", "2">> ELSE <<"1">>

\* What that server has sent when it has read n requests.
RECURSIVE ServerStream(_)
ServerStream(n) ==
    IF n = 0 THEN <<>>
    ELSE ServerStream(n - 1) \o ResponseTo(n) \o <<NL>>

----------------------------------------------------------------------------
(* Inputs of the public operations *)

CollectionSet == { JSString(<<"u", "s", "e", "r", "s">>) }

NAME_KEY == <<"n", "a", "m", "e">>

DataSet ==
    { JSObject(<<Member(NAME_KEY, JSString(<<"a">>))>>),
      JSObject(<<Member(UNDERSCORE_ID, JSString(<<"7">>)),
                 Member(NAME_KEY, JSString(<<"a">>))>>),
      JSObject(<<Member(NAME_KEY, JSString(<<"a">>)),
                 Member(UNDERSCORE_ID, JSString(<<"7">>)),
                 Member(LIMIT_KEY, JSNumber(1))>>) }

\* A document JSON.stringify throws on.
UnserialisableSet == { JSObject(<<Member(NAME_KEY, JSBigInt(1))>>) }

IdSet == { JSString(<<"7">>) }

\* upsert takes a string, null, or nothing.
UpsertIdSet == IdSet \cup { JSNull, JSUndefined }

QuerySet == { JSUndefined, JSObject(<<Member(NAME_KEY, JSString(<<"a">>))>>) }

LimitSet == { JSUndefined, JSNumber(10) }

\* The options given to the constructor: a host or none, and a port
\* property the constructor does not read (NoPort: no such property).
NoPort == 0
OtherPort == 9999
OptionsSet ==
    [host : { Absent, Given(""), Given("db.example") }, port : { NoPort, OtherPort }]

NoOptions == [host |-> Absent, port |-> NoPort]

----------------------------------------------------------------------------
(* Actions *)

NoCall == [op |-> "", args |-> <<>>]

\* The state after new XDBClient(options).
InitWith(opts) ==
    /\ options = opts
    /\ host = New(opts).host
    /\ port = New(opts).port
    /\ isConnected = FALSE
    /\ responseQueue = <<>>
    /\ streamBuffer = <<>>
    /\ connects = <<>>
    /\ connecting = FALSE
    /\ callbacks = <<>>
    /\ cmds = <<>>
    /\ writes = <<>>
    /\ sent = <<>>
    /\ dials = <<>>
    /\ closers = <<>>
    /\ ends = 0
    /\ received = <<>>
    /\ emitted = <<>>
    /\ errored = FALSE
    /\ closed = FALSE
    /\ lastEvent = [type |-> "new", err |-> "", size |-> 0, done |-> <<>>,
                    logs |-> <<>>, call |-> NoCall]

\* new XDBClient()
Init == InitWith(NoOptions)

\* new XDBClient(options)
InitApi == \E opts \in OptionsSet : InitWith(opts)

\* Mutant: close() does not wait for the exit request.
ExitNotAwaited(p) == TRUE

\* await this.sendCommand(...): close() goes on when the promise is settled.
ExitAwaited(p) == p.st # "pending"

\* Mutant: close() sends its exit request whatever the state.
CloseSendsAlways(c) == TRUE

\* if (this.isConnected): close() does something only on a connected client.
CloseSends(c) == c.isConnected

\* Mutant: close() catches the rejection of its exit request and goes on.
ExitFailedNever(p) == FALSE

\* await on a rejected promise throws: the rest of close() does not run and
\* the call fails with the promise's error.
ExitFailed(p) == p.st = "rejected"

\* Mutant: close() clears the connected flag itself.
AfterExitDisconnects(c) == [c EXCEPT !.isConnected = FALSE]

\* Mutant: close() cancels what is still pending.
AfterExitCancels(c) == [c EXCEPT !.responseQueue = <<>>]

\* What the rest of close() does to the client's fields: socket.end() and a
\* log line, no assignment.
AfterExit(c) == c

\* A close() call is past its await: the exit request it waits for is
\* settled and its continuation is the next thing to run, before any
\* further socket event.
ContinuationReady ==
    \E k \in 1..Len(closers) :
       /\ closers[k].st = "awaiting"
       /\ ExitAwaited(cmds[closers[k].cmd].p)

\* The body of connect(): socket.connect(port, host, callback) starts an
\* attempt, and a data, an error and a close listener are added.
ConnectCall ==
    /\ LET c == [Client EXCEPT !.connects = Append(@, NewPromise)]
       IN /\ Install(c)
          /\ lastEvent' = Event("connect", "", 0, c)
    /\ connecting' = TRUE
    /\ callbacks' = Append(callbacks, Len(connects) + 1)
    /\ dials' = Append(dials, [port |-> port, host |-> host])
    /\ UNCHANGED <<options, host, port, closers, ends, received, errored, closed>>

\* connect(), the first call on the instance.
Connect ==
    /\ connects = <<>>
    /\ ConnectCall

\* connect() called again on the same instance, to reconnect the socket
\* after its 'close' event (the use net.Socket.connect documents for a
\* second call).
Reconnect ==
    /\ connects # <<>>
    /\ Len(connects) < MaxConnects
    /\ closed /\ ~connecting /\ ~isConnected
    /\ ConnectCall

\* The socket reports the connection: the connect callbacks run.
Connected ==
    /\ connecting
    /\ ~ContinuationReady
    /\ LET c == ConnectListeners(Client, callbacks)
       IN /\ Install(c)
          /\ lastEvent' = Event("connected", "", 0, c)
    /\ connecting' = FALSE
    /\ callbacks' = <<>>
    /\ UNCHANGED <<options, host, port, dials, closers, ends, received, errored, closed>>

\* A public operation hands its payload to sendCommand.
Dispatch(op, args, payload) ==
    /\ Len(cmds) < MaxCmds
    /\ LET c == SendCommandOp(Client, payload)
       IN /\ Install(c)
          /\ lastEvent' = [Event("send", "", 0, c) EXCEPT
                              !.call = [op |-> op, args |-> args]]
    /\ UNCHANGED <<options, host, port, connecting, callbacks, dials, closers, ends,
                   received, errored, closed>>

\* A public operation calls sendCommand: count(collection), which stands
\* for any of them where only the queue matters.
SendCommand ==
    \E collection \in CollectionSet :
       Dispatch("count", <<collection>>, CountRequest(collection))

Insert ==
    \E collection \in CollectionSet, data \in DataSet :
       Dispatch("insert", <<collection, data>>, InsertRequest(collection, data))

\* insert(collection, data) with a document that cannot be serialised.
InsertUnserialisable ==
    \E collection \in CollectionSet, data \in UnserialisableSet :
       Dispatch("insert", <<collection, data>>, InsertRequest(collection, data))

Update ==
    \E collection \in CollectionSet, id \in IdSet, data \in DataSet :
       Dispatch("update", <<collection, id, data>>,
                UpdateRequest(collection, id, data))

Upsert ==
    \E collection \in CollectionSet, id \in UpsertIdSet, data \in DataSet :
       Dispatch("upsert", <<collection, id, data>>,
                UpsertRequest(collection, id, data))

Find ==
    \E collection \in CollectionSet, query \in QuerySet, limit \in LimitSet :
       Dispatch("find", <<collection, query, limit>>,
                FindRequest(collection, query, limit))

Delete ==
    \E collection \in CollectionSet, id \in IdSet :
       Dispatch("delete", <<collection, id>>, DeleteRequest(collection, id))

Count ==
    \E collection \in CollectionSet :
       Dispatch("count", <<collection>>, CountRequest(collection))

Snapshot == Dispatch("snapshot", <<>>, SnapshotRequest)

\* close(), up to its await: the exit request is dispatched when the client
\* is connected; otherwise the call does nothing.
CloseCall ==
    /\ IF CloseSends(Client)
       THEN /\ Len(cmds) < MaxCmds
            /\ LET c == SendCommandOp(Client, ExitRequest)
               IN /\ Install(c)
                  /\ lastEvent' = [Event("closeCall", "", 0, c) EXCEPT
                                      !.call = [op |-> "close", args |-> <<>>]]
            /\ closers' = Append(closers, [cmd |-> Len(cmds) + 1, st |-> "awaiting"])
       ELSE /\ Install(Client)
            /\ lastEvent' = [Event("closeCall", "", 0, Client) EXCEPT
                                !.call = [op |-> "close", args |-> <<>>]]
            /\ closers' = closers
    /\ UNCHANGED <<options, host, port, connecting, callbacks, dials, ends,
                   received, errored, closed>>

\* close(), after its await: when the exit request was rejected the await
\* throws and the call fails; otherwise the socket is ended and the call
\* completes.
CloseResume ==
    /\ \E k \in 1..Len(closers) :
          /\ closers[k].st = "awaiting"
          /\ ExitAwaited(cmds[closers[k].cmd].p)
          /\ IF ExitFailed(cmds[closers[k].cmd].p)
             THEN /\ ends' = ends
                  /\ closers' = [closers EXCEPT ![k].st = "rejected"]
                  /\ Install(Client)
                  /\ lastEvent' = [type |-> "closeResume", err |-> "", size |-> 0,
                                   done |-> <<>>, logs |-> <<>>, call |-> NoCall]
             ELSE /\ ends' = ends + 1
                  /\ closers' = [closers EXCEPT ![k].st = "resolved"]
                  /\ Install(AfterExit(Client))
                  /\ lastEvent' = [type |-> "closeResume", err |-> "", size |-> 0,
                                   done |-> <<>>,
                                   logs |-> <<"INFO Session terminated gracefully.">>,
                                   call |-> NoCall]
    /\ UNCHANGED <<options, host, port, connecting, callbacks, dials,
                   received, errored, closed>>

\* socket 'data': the next bytes of the server's stream arrive as one chunk.
\* What has been received stays the beginning of some stream of Streams.
DataEvent ==
    /\ connects # <<>>
    /\ ~ContinuationReady
    /\ \E p \in Continuations[received] :
          LET chunk == SubSeq(p, Len(received) + 1, Len(p))
              c == DataListeners(Client, 1, chunk)
          IN /\ Install(c)
             /\ lastEvent' = Event("data", "", Len(chunk), c)
             /\ received' = p
    /\ UNCHANGED <<options, host, port, connecting, callbacks, dials, closers, ends,
                   errored, closed>>

\* socket 'data' when the server's stream is made of status replies.
DataEventReply ==
    /\ connects # <<>>
    /\ ~ContinuationReady
    /\ \E p \in ReplyContinuations[received] :
          LET chunk == SubSeq(p, Len(received) + 1, Len(p))
              c == DataListeners(Client, 1, chunk)
          IN /\ Install(c)
             /\ lastEvent' = Event("data", "", Len(chunk), c)
             /\ received' = p
    /\ UNCHANGED <<options, host, port, connecting, callbacks, dials, closers, ends,
                   errored, closed>>

\* socket 'data' when the server's stream is made of short lines.
DataEventShort ==
    /\ connects # <<>>
    /\ ~ContinuationReady
    /\ \E p \in ShortContinuations[received] :
          LET chunk == SubSeq(p, Len(received) + 1, Len(p))
              c == DataListeners(Client, 1, chunk)
          IN /\ Install(c)
             /\ lastEvent' = Event("data", "", Len(chunk), c)
             /\ received' = p
    /\ UNCHANGED <<options, host, port, connecting, callbacks, dials, closers, ends,
                   errored, closed>>

\* socket 'data' when the server's replies hold a two-byte character: a
\* chunk may end between its two bytes.
DataEventBytes ==
    /\ connects # <<>>
    /\ ~ContinuationReady
    /\ \E p \in ByteContinuations[received] :
          LET chunk == SubSeq(p, Len(received) + 1, Len(p))
              c == DataListeners(Client, 1, chunk)
          IN /\ Install(c)
             /\ lastEvent' = Event("data", "", Len(chunk), c)
             /\ received' = p
    /\ UNCHANGED <<options, host, port, connecting, callbacks, dials, closers, ends,
                   errored, closed>>

\* socket 'data' with the answering server: the next bytes of what it has
\* sent for the requests written so far arrive as one chunk.
DataEventServed ==
    /\ connects # <<>>
    /\ ~ContinuationReady
    /\ \E n \in (Len(received) + 1)..Min(Len(ServerStream(Len(writes))),
                                         Len(received) + MaxChunk) :
          LET p == SubSeq(ServerStream(Len(writes)), 1, n)
              chunk == SubSeq(p, Len(received) + 1, n)
              c == DataListeners(Client, 1, chunk)
          IN /\ Install(c)
             /\ lastEvent' = Event("data", "", Len(chunk), c)
             /\ received' = p
    /\ UNCHANGED <<options, host, port, connecting, callbacks, dials, closers, ends,
                   errored, closed>>

\* socket 'error'
ErrorEvent ==
    /\ connects # <<>>
    /\ ~ContinuationReady
    /\ \E err \in TransportErrors :
          LET c == ErrorListeners(Client, 1, err)
          IN /\ Install(c)
             /\ lastEvent' = Event("error", err, 0, c)
    /\ connecting' = FALSE
    /\ errored' = TRUE
    /\ UNCHANGED <<options, host, port, callbacks, dials, closers, ends, received, closed>>

\* socket 'close'
CloseEvent ==
    /\ connects # <<>>
    /\ ~ContinuationReady
    /\ LET c == CloseListeners(Client, 1)
       IN /\ Install(c)
          /\ lastEvent' = Event("close", "", 0, c)
    /\ connecting' = FALSE
    /\ closed' = TRUE
    /\ UNCHANGED <<options, host, port, callbacks, dials, closers, ends, received, errored>>

Next ==
    \/ Connect
    \/ Connected
    \/ SendCommand
    \/ DataEvent
    \/ ErrorEvent
    \/ CloseEvent

Spec == Init /\ [][Next]_vars

\* The same client against a server whose lines are status replies.
NextReply ==
    \/ Connect
    \/ Connected
    \/ SendCommand
    \/ DataEventReply
    \/ ErrorEvent
    \/ CloseEvent

SpecReply == Init /\ [][NextReply]_vars

\* A public operation or close() called before the socket was ended: a write
\* after socket.end() makes the socket emit an error.
SendBeforeEnd == ends = 0 /\ SendCommand

CloseBeforeEnd == ends = 0 /\ CloseCall

\* The server closes the connection when the client has ended it and every
\* response has been delivered.
CloseAfterEnd ==
    /\ ends > 0
    /\ received = ServerStream(Len(writes))
    /\ CloseEvent

\* The client with a server that answers every request in order, on a
\* transport without errors.
NextServed ==
    \/ Connect
    \/ Connected
    \/ SendBeforeEnd
    \/ CloseBeforeEnd
    \/ CloseResume
    \/ DataEventServed
    \/ CloseAfterEnd

\* The transport's part of a data event: some of the bytes the server has
\* sent and the socket has not yet emitted arrive.  The steps of NextServed
\* that change received are the DataEventServed steps, and both are enabled
\* in the same states.
Delivery ==
    /\ connects # <<>>
    /\ ~ContinuationReady
    /\ \E n \in (Len(received) + 1)..Len(ServerStream(Len(writes))) :
          received' = SubSeq(ServerStream(Len(writes)), 1, n)

\* Every byte sent is eventually delivered (the socket emits 'data' while
\* bytes are outstanding) and the continuation of an await whose promise is
\* settled is eventually run by the event loop.
SpecServed ==
    /\ Init
    /\ [][NextServed]_vars
    /\ WF_received(Delivery)
    /\ WF_vars(CloseResume)

\* The client with a server whose replies hold a two-byte character.
NextBytes ==
    \/ Connect
    \/ Connected
    \/ SendCommand
    \/ DataEventBytes
    \/ ErrorEvent
    \/ CloseEvent

SpecBytes == Init /\ [][NextBytes]_vars

\* The same client when connect() may be called more than once, against a
\* server that sends short lines.
NextReconnect ==
    \/ Connect
    \/ Reconnect
    \/ Connected
    \/ SendCommand
    \/ DataEventShort
    \/ ErrorEvent
    \/ CloseEvent

SpecReconnect == Init /\ [][NextReconnect]_vars

\* The client when a caller may also hand over a document that cannot be
\* serialised, against a server that sends short lines.
NextSerialize ==
    \/ Connect
    \/ Connected
    \/ SendCommand
    \/ InsertUnserialisable
    \/ DataEventShort
    \/ ErrorEvent
    \/ CloseEvent

SpecSerialize == Init /\ [][NextSerialize]_vars

\* The same client when close() is among the calls, against a server that
\* sends short lines.
NextClose ==
    \/ Connect
    \/ Connected
    \/ SendCommand
    \/ CloseCall
    \/ CloseResume
    \/ DataEventShort
    \/ ErrorEvent
    \/ CloseEvent

SpecClose == Init /\ [][NextClose]_vars

\* The constructor with any options, and connect() called once or again.
\* No data events: where the socket connects does not depend on what the
\* server sends.
NextOptions ==
    \/ Connect
    \/ Reconnect
    \/ Connected
    \/ SendCommand
    \/ ErrorEvent
    \/ CloseEvent

SpecOptions == InitApi /\ [][NextOptions]_vars

\* The public operations with their arguments.  No data events: what is
\* written does not depend on what the server sends.
NextApi ==
    \/ Connect
    \/ Connected
    \/ Insert
    \/ Update
    \/ Upsert
    \/ Find
    \/ Delete
    \/ Count
    \/ Snapshot
    \/ ErrorEvent
    \/ CloseEvent

SpecApi == Init /\ [][NextApi]_vars

----------------------------------------------------------------------------
(* What the claims speak of, read off the whole history rather than off    *)
(* the client's incremental state.                                         *)

\* The received stream cut at its newlines, one character at a time.
RECURSIVE WireScan(_, _, _)
WireScan(s, cur, out) ==
    IF s = <<>> THEN [lines |-> out, rest |-> cur]
    ELSE IF Head(s) = NL THEN WireScan(Tail(s), <<>>, Append(out, cur))
    ELSE WireScan(Tail(s), Append(cur, Head(s)), out)

HasText(l) == \E i \in 1..Len(l) : l[i] # SP

\* The complete non-blank lines of a stream, in order.
MessagesOf(s) == SelectSeq(WireScan(s, <<>>, <<>>).lines, HasText)

\* The text after the last newline of a stream.
FragmentOf(s) == WireScan(s, <<>>, <<>>).rest

\* The chunk a data step delivers.
ChunkOf(before, after) == SubSeq(after, Len(before) + 1, Len(after))

\* The commands accepted by sendCommand, in dispatch order.
AcceptedIds == SelectSeq([i \in 1..Len(cmds) |-> i], LAMBDA i : cmds[i].accepted)

\* No line arrived while nothing was pending.
NoneDropped == \A k \in 1..Len(emitted) : emitted[k].cmd # 0

ResolvedWith(v) == [st |-> "resolved", val |-> v, err |-> "", calls |-> 1]

RejectedWith(e) == [st |-> "rejected", val |-> 0, err |-> e, calls |-> 1]

\* What a complete line owes the command it answers.
Owed(line) ==
    IF JSONParse(line).ok THEN ResolvedWith(JSONParse(line).val)
                          ELSE RejectedWith(ErrMalformed)

HintLine == "WARN Hint: Is the XDB server running?"

InLogs(x, logs) == \E i \in 1..Len(logs) : logs[i] = x

----------------------------------------------------------------------------
C2_FragmentedLine ==
    LET msgs == MessagesOf(ChunkToString(received))
    IN /\ Len(emitted) = Len(msgs)
       /\ \A k \in 1..Len(emitted) :
             /\ emitted[k].line = msgs[k]
             /\ emitted[k].cmd # 0 =>
                   /\ cmds[emitted[k].cmd].p.calls = 1
                   /\ JSONParse(msgs[k]).ok =>
                         cmds[emitted[k].cmd].p = ResolvedWith(JSONParse(msgs[k]).val)
             /\ \A l \in 1..Len(emitted) :
                   (k # l /\ emitted[k].cmd # 0) => emitted[k].cmd # emitted[l].cmd

\* C3: a data event that completes n lines while at least n commands are
\* pending settles the n oldest pending commands, in queue order, each with
\* its own line's content, and removes exactly those from the queue.
C3_CoalescedLines ==
    [][lastEvent'.type = "data" =>
          LET ms == MessagesOf(streamBuffer \o ChunkOf(received, received'))
          IN Len(ms) <= Len(responseQueue) =>
                /\ lastEvent'.done = SubSeq(responseQueue, 1, Len(ms))
                /\ responseQueue' = SubSeq(responseQueue, Len(ms) + 1, Len(responseQueue))
                /\ \A i \in 1..Len(ms) : cmds'[responseQueue[i]].p = Owed(ms[i])]_vars

\* One data event resolved two commands with the values of its two lines.
C3_Witness ==
    /\ lastEvent.type = "data"
    /\ Len(lastEvent.done) = 2
    /\ lastEvent.done[1] < lastEvent.done[2]
    /\ cmds[lastEvent.done[1]].p = ResolvedWith(1)
    /\ cmds[lastEvent.done[2]].p = ResolvedWith(12)

\* C4: when no transport error has occurred and no line arrived with nothing
\* pending, the i-th accepted command is rejected with the malformed-JSON
\* error if the i-th complete non-blank line does not parse and resolved with
\* its content if it does; the commands beyond the lines received are still
\* pending and queued in dispatch order; the buffer is the text after the
\* last newline.
C4_MalformedLine ==
    LET msgs == MessagesOf(received)
        acc == AcceptedIds
    IN (~errored /\ NoneDropped) =>
          /\ Len(msgs) <= Len(acc)
          /\ \A i \in 1..Len(msgs) : cmds[acc[i]].p = Owed(msgs[i])
          /\ \A i \in (Len(msgs) + 1)..Len(acc) : cmds[acc[i]].p = NewPromise
          /\ responseQueue = SubSeq(acc, Len(msgs) + 1, Len(acc))
          /\ streamBuffer = FragmentOf(received)

\* The first command was rejected for a malformed line and the second was
\* resolved by the well-formed line after it.
C4_Witness ==
    /\ ~errored /\ NoneDropped
    /\ Len(AcceptedIds) = 2
    /\ cmds[AcceptedIds[1]].p = RejectedWith(ErrMalformed)
    /\ cmds[AcceptedIds[2]].p = ResolvedWith(12)

\* C5: an error event handled with exactly one command pending rejects that
\* command with the emitted error and clears isConnected; and every
\* sendCommand after a command was rejected by a transport error is rejected
\* with the not-connected error and writes nothing.
C5_ErrorWithOnePending ==
    [][/\ (lastEvent'.type = "error" /\ Len(responseQueue) = 1) =>
             /\ cmds'[responseQueue[1]].p = RejectedWith(lastEvent'.err)
             /\ lastEvent'.err \in TransportErrors
             /\ responseQueue' = <<>>
             /\ ~isConnected'
       /\ (/\ lastEvent'.type = "send"
           /\ \E i \in 1..Len(cmds) : /\ cmds[i].p.st = "rejected"
                                      /\ cmds[i].p.err \in TransportErrors) =>
             /\ cmds' = Append(cmds, [accepted |-> FALSE,
                                      p |-> RejectedWith(ErrNotConnected)])
             /\ writes' = writes
             /\ responseQueue' = responseQueue]_vars

\* C6: an error event handled while a connect() promise is pending and no
\* command is pending rejects that promise with the emitted error, and prints
\* the hint when the error is ECONNREFUSED.
C6_ErrorDuringConnect ==
    [][\A i \in 1..Len(connects) :
          (/\ lastEvent'.type = "error"
           /\ connects[i].st = "pending"
           /\ responseQueue = <<>>) =>
             /\ connects'[i] = RejectedWith(lastEvent'.err)
             /\ lastEvent'.err \in TransportErrors
             /\ lastEvent'.err = "ECONNREFUSED" => InLogs(HintLine, lastEvent'.logs)]_vars

\* connect() was rejected with ECONNREFUSED and the hint was printed.
C6_Witness ==
    /\ lastEvent.type = "error"
    /\ Len(connects) = 1
    /\ connects[1] = RejectedWith("ECONNREFUSED")
    /\ InLogs(HintLine, lastEvent.logs)
    /\ cmds = <<>>

\* C7: every accepted command is settled at most once, and once an error
\* event has been handled no accepted command is left unsettled.
C7_ExactlyOnce ==
    \A i \in 1..Len(cmds) :
       cmds[i].accepted =>
          /\ cmds[i].p.calls <= 1
          /\ lastEvent.type = "error" => cmds[i].p.calls = 1

\* C8: after an error event or a close event has been handled the pending
\* queue is empty.
C8_DrainedOnFailure ==
    lastEvent.type \in {"error", "close"} => responseQueue = <<>>

\* C9: the queue length is the number of commands written, less the entries
\* completed by a complete line, less the entries removed by error events.
C9_QueueLength ==
    LET byLine == Cardinality({k \in 1..Len(emitted) : emitted[k].cmd # 0})
        byError == Cardinality({i \in 1..Len(cmds) :
                                   /\ cmds[i].p.st = "rejected"
                                   /\ cmds[i].p.err \in TransportErrors})
    IN Len(responseQueue) = Len(writes) - byLine - byError

\* C10: sendCommand while isConnected is false rejects the new promise with
\* the not-connected error, writes nothing and leaves the queue and the
\* buffer as they were.
C10_NotConnected ==
    [][(lastEvent'.type = "send" /\ ~isConnected) =>
          /\ cmds' = Append(cmds, [accepted |-> FALSE,
                                   p |-> RejectedWith(ErrNotConnected)])
          /\ writes' = writes
          /\ responseQueue' = responseQueue
          /\ streamBuffer' = streamBuffer]_vars

\* One dispatch failed before connect() and another while still connecting.
C10_Witness ==
    /\ connecting
    /\ Len(cmds) = 2
    /\ \A i \in 1..2 : ~cmds[i].accepted /\ cmds[i].p = RejectedWith(ErrNotConnected)
    /\ writes = <<>> /\ responseQueue = <<>>
    /\ lastEvent.type = "send"

\* C11: every queue entry is a command whose payload was written, the queue
\* lists its entries in the order of their writes, and a step enqueues an
\* entry exactly when it writes that entry's payload: the queue and the
\* writes grow together, by the same command, or not at all.
C11_EnqueuedIffWritten ==
    /\ [](/\ \A k \in 1..Len(responseQueue) :
                \E j \in 1..Len(writes) : writes[j] = responseQueue[k]
          /\ \A k, l \in 1..Len(responseQueue) :
                k < l => \E i, j \in 1..Len(writes) :
                            /\ i < j
                            /\ writes[i] = responseQueue[k]
                            /\ writes[j] = responseQueue[l])
    /\ [][(Len(responseQueue') > Len(responseQueue) \/ writes' # writes) =>
             \E id \in 1..Len(cmds') :
                /\ responseQueue' = Append(responseQueue, id)
                /\ writes' = Append(writes, id)]_vars

\* C12: of two accepted commands, the later one never settles in a step in
\* which the earlier one is still pending afterwards, and when one event
\* settles both it settles the earlier one first.
C12_CompletionOrder ==
    [][\A a, b \in 1..Len(cmds) :
          (/\ a < b
           /\ cmds[a].accepted /\ cmds[b].accepted
           /\ cmds[b].p.st = "pending"
           /\ cmds'[b].p.st # "pending")
          => /\ cmds'[a].p.st # "pending"
             /\ cmds[a].p.st = "pending" =>
                   \E i, j \in 1..Len(lastEvent'.done) :
                      /\ i < j
                      /\ lastEvent'.done[i] = a
                      /\ lastEvent'.done[j] = b]_vars

\* B was dispatched while A was pending; a data event then completed A alone
\* and B is still waiting in the queue.
C12_Witness ==
    /\ Len(cmds) = 2
    /\ cmds[1].accepted /\ cmds[2].accepted
    /\ lastEvent.type = "data"
    /\ lastEvent.done = <<1>>
    /\ cmds[1].p.st = "resolved"
    /\ cmds[2].p.st = "pending"
    /\ responseQueue = <<2>>

\* C13: a dispatch is accepted only while the client is connected, and never
\* after an error event or a close event has been handled on the instance.
C13_TerminalStates ==
    [][(/\ lastEvent'.type = "send"
        /\ Len(cmds') = Len(cmds) + 1
        /\ cmds'[Len(cmds')].accepted)
       => /\ isConnected
          /\ ~errored
          /\ ~closed]_vars

\* C14: however many times connect() was called, a chunk is appended to the
\* buffer once, so the buffer is the text after the last newline received,
\* and an error event is handled once: one listener's log lines and at most
\* one promise rejected.
C14_ObserversOnce ==
    /\ streamBuffer = FragmentOf(received)
    /\ lastEvent.type = "error" =>
          /\ lastEvent.logs = ErrorLogs(lastEvent.err)
          /\ Len(lastEvent.done) <= 1

\* The value of the status member of a parsed reply.
StatusOf(val) ==
    LET k == CHOOSE i \in 1..Len(val) : val[i].key = StatusKey
    IN val[k].value

\* C15: a complete line that parses and answers a command resolves that
\* command with the parsed object, whether its status member says "ok" or
\* "error".
C15_StatusNotInspected ==
    \A k \in 1..Len(emitted) :
       LET json == JSONParse(emitted[k].line)
       IN (/\ emitted[k].cmd # 0
           /\ json.ok
           /\ StatusOf(json.val) \in {StatusOk, StatusError})
          => /\ cmds[emitted[k].cmd].p.st = "resolved"
             /\ cmds[emitted[k].cmd].p.calls = 1
             /\ cmds[emitted[k].cmd].p.val = json.val

\* One command was resolved with a reply of status "error" and another with
\* a reply of status "ok".
C15_Witness ==
    /\ Len(cmds) = 2
    /\ \A i \in 1..2 : cmds[i].p.st = "resolved" /\ cmds[i].p.calls = 1
    /\ StatusOf(cmds[1].p.val) = StatusError
    /\ StatusOf(cmds[2].p.val) = StatusOk

\* The request line of close(), as it appears on the wire.
ExitLine == <<"{", QUOTE>> \o <<"a", "c", "t", "i", "o", "n">> \o <<QUOTE, ":", QUOTE>> \o <<"e", "x", "i", "t">> \o <<QUOTE, "}", NL>>

\* The close() calls whose socket.end() was called.
Ended == { k \in 1..Len(closers) : closers[k].st = "resolved" }

\* C16: close() on a connected client writes the exit request line, once,
\* enqueues its entry and does not end the socket in that step; socket.end()
\* is called only by a close() whose exit request has been resolved by a
\* line received from the server, and once per such close().
C16_EndAfterExitReply ==
    /\ [](/\ ends = Cardinality(Ended)
          /\ \A k \in Ended :
                /\ cmds[closers[k].cmd].p.st = "resolved"
                /\ \E e \in 1..Len(emitted) : emitted[e].cmd = closers[k].cmd)
    /\ [][/\ (lastEvent'.type = "closeCall" /\ isConnected) =>
                /\ sent' = Append(sent, ExitLine)
                /\ writes' = Append(writes, Len(cmds) + 1)
                /\ responseQueue' = Append(responseQueue, Len(cmds) + 1)
                /\ ends' = ends
          /\ ends' # ends =>
                /\ ends' = ends + 1
                /\ lastEvent'.type = "closeResume"
                /\ \E k \in 1..Len(closers) :
                      /\ closers[k].st = "awaiting"
                      /\ closers'[k].st = "resolved"
                      /\ cmds[closers[k].cmd].p.st = "resolved"]_vars

\* close() was called with a command already pending; the server answered
\* both, the exit request was resolved and only then the socket was ended.
C16_Witness ==
    /\ Len(closers) = 1
    /\ closers[1] = [cmd |-> 2, st |-> "resolved"]
    /\ sent[2] = ExitLine
    /\ cmds[2].p.st = "resolved"
    /\ ends = 1
    /\ lastEvent.type = "closeResume"

\* C17: no step of close() changes isConnected, only an error or a close
\* event clears it, and so after a close() has completed, as long as no
\* error or close event has been handled, isConnected is still true.
C17_FlagOutlivesClose ==
    /\ []((Ended # {} /\ ~errored /\ ~closed) => isConnected)
    /\ [][/\ lastEvent'.type \in {"closeCall", "closeResume"} =>
                isConnected' = isConnected
          /\ (isConnected /\ ~isConnected') =>
                lastEvent'.type \in {"error", "close"}]_vars

\* close() has completed, the socket was ended, no error or close event
\* has been handled yet, and isConnected is true.
C17_Witness ==
    /\ Ended # {}
    /\ ends = 1
    /\ ~errored /\ ~closed
    /\ isConnected
    /\ lastEvent.type = "closeResume"

\* C18 as stated: every socket.connect call is given port 8080, and host
\* 127.0.0.1 when the options had no host and the given host otherwise; no
\* step changes host or port.
C18_FixedPortGivenHost ==
    /\ [](\A i \in 1..Len(dials) :
             /\ dials[i].port = 8080
             /\ dials[i].host = IF options.host.given THEN options.host.v
                                ELSE "127.0.0.1")
    /\ [][host' = host /\ port' = port]_vars

\* C18, amended: every socket.connect call is given port 8080 whatever the
\* options were, and host 127.0.0.1 when the options had no host or an
\* empty one and the given host otherwise; no step changes host or port.
C18_FixedPortHostOrDefault ==
    /\ [](/\ port = 8080
          /\ \A i \in 1..Len(dials) :
                /\ dials[i].port = 8080
                /\ dials[i].host =
                      IF options.host.given /\ options.host.v # ""
                      THEN options.host.v ELSE "127.0.0.1")
    /\ [][host' = host /\ port' = port]_vars

\* A client built with an empty host and another port connected twice, both
\* times to 127.0.0.1 on port 8080.
C18_Witness ==
    /\ options = [host |-> Given(""), port |-> OtherPort]
    /\ dials = <<[port |-> 8080, host |-> "127.0.0.1"],
                 [port |-> 8080, host |-> "127.0.0.1"]>>

\* The text of one property of a request: "key":value.
FieldText(key, value) == <<QUOTE>> \o key \o <<QUOTE, ":">> \o JSONStringify(value)

RECURSIVE JoinFields(_)
JoinFields(fields) ==
    IF fields = <<>> THEN <<>>
    ELSE IF Len(fields) = 1 THEN Head(fields)
    ELSE Head(fields) \o <<",">> \o JoinFields(Tail(fields))

\* The request line made of the given properties, newline included.
LineOf(fields) == <<"{">> \o JoinFields(fields) \o <<"}", NL>>

\* The request line the operation table prescribes for a call.
TableLine(call) ==
    LET a == call.args
    IN CASE call.op = "insert" ->
               LineOf(<<FieldText(ACTION_KEY, JSString(INSERT)),
                        FieldText(COLLECTION_KEY, a[1]),
                        FieldText(DATA_KEY, a[2])>>)
         [] call.op = "find" ->
               LineOf(<<FieldText(ACTION_KEY, JSString(FIND)),
                        FieldText(COLLECTION_KEY, a[1]),
                        FieldText(QUERY_KEY, IF a[2] = JSUndefined
                                             THEN JSObject(<<>>) ELSE a[2]),
                        FieldText(LIMIT_KEY, IF a[3] = JSUndefined
                                             THEN JSNumber(0) ELSE a[3])>>)
         [] call.op = "delete" ->
               LineOf(<<FieldText(ACTION_KEY, JSString(DELETE)),
                        FieldText(COLLECTION_KEY, a[1]),
                        FieldText(ID_KEY, a[2])>>)
         [] call.op = "count" ->
               LineOf(<<FieldText(ACTION_KEY, JSString(COUNT)),
                        FieldText(COLLECTION_KEY, a[1])>>)
         [] call.op = "snapshot" ->
               LineOf(<<FieldText(ACTION_KEY, JSString(SNAPSHOT))>>)

\* The text has one newline, at its end.
OneLine(text) ==
    /\ text # <<>>
    /\ Last(text) = NL
    /\ \A i \in 1..(Len(text) - 1) : text[i] # NL

\* C19: insert, find, delete, count or snapshot called on a connected client
\* writes one text, which is one newline-terminated line and is the line of
\* the operation table for the call, and enqueues one entry.
C19_RequestLines ==
    [][(/\ lastEvent'.type = "send"
        /\ lastEvent'.call.op \in {"insert", "find", "delete", "count", "snapshot"}
        /\ isConnected)
       => /\ Len(sent') = Len(sent) + 1
          /\ SubSeq(sent', 1, Len(sent)) = sent
          /\ OneLine(Last(sent'))
          /\ Last(sent') = TableLine(lastEvent'.call)
          /\ responseQueue' = Append(responseQueue, Len(cmds) + 1)]_vars

\* {"action":"find","collection":"users","query":{},"limit":0} and a newline
FindAllLine ==
    <<"{", QUOTE, "a", "c", "t", "i", "o", "n", QUOTE, ":", QUOTE,
         "f", "i", "n", "d", QUOTE, ",", QUOTE, "c", "o", "l",
         "l", "e", "c", "t", "i", "o", "n", QUOTE, ":", QUOTE,
         "u", "s", "e", "r", "s", QUOTE, ",", QUOTE, "q", "u",
         "e", "r", "y", QUOTE, ":", "{", "}", ",", QUOTE, "l",
         "i", "m", "i", "t", QUOTE, ":", "0", "}", NL>>

\* {"action":"insert","collection":"users","data":{"name":"a"}} and a newline
InsertLine ==
    <<"{", QUOTE, "a", "c", "t", "i", "o", "n", QUOTE, ":", QUOTE,
         "i", "n", "s", "e", "r", "t", QUOTE, ",", QUOTE, "c",
         "o", "l", "l", "e", "c", "t", "i", "o", "n", QUOTE, ":",
         QUOTE, "u", "s", "e", "r", "s", QUOTE, ",", QUOTE, "d",
         "a", "t", "a", QUOTE, ":", "{", QUOTE, "n", "a", "m",
         "e", QUOTE, ":", QUOTE, "a", QUOTE, "}", "}", NL>>

\* find('users') was called with no query and no limit and then
\* insert('users', {name: 'a'}); both lines are on the wire and both entries
\* in the queue.
C19_Witness ==
    /\ sent = <<FindAllLine, InsertLine>>
    /\ responseQueue = <<1, 2>>
    /\ lastEvent.call.op = "insert"

\* An object without its _id property, the other properties in their order.
RECURSIVE WithoutId(_)
WithoutId(members) ==
    IF members = <<>> THEN <<>>
    ELSE IF Head(members).key = UNDERSCORE_ID THEN WithoutId(Tail(members))
    ELSE <<Head(members)>> \o WithoutId(Tail(members))

\* C20: update and upsert called on a connected client write the line whose
\* id is the given id (null for upsert when the id is null or undefined) and
\* whose data is the given data without its _id property.
C20_IdStripped ==
    [][(/\ lastEvent'.type = "send"
        /\ lastEvent'.call.op \in {"update", "upsert"}
        /\ isConnected)
       => LET a == lastEvent'.call.args
              name == IF lastEvent'.call.op = "update" THEN UPDATE ELSE UPSERT
              id == IF lastEvent'.call.op = "upsert" /\ a[2] \in {JSNull, JSUndefined}
                    THEN JSNull ELSE a[2]
          IN sent' = Append(sent,
                LineOf(<<FieldText(ACTION_KEY, JSString(name)),
                         FieldText(COLLECTION_KEY, a[1]),
                         FieldText(ID_KEY, id),
                         FieldText(DATA_KEY, JSObject(WithoutId(a[3].o)))>>))]_vars

\* {"action":"update","collection":"users","id":"7","data":{"name":"a","limit":1}}
\* and a newline
UpdateLine ==
    <<"{", QUOTE, "a", "c", "t", "i", "o", "n", QUOTE, ":", QUOTE,
         "u", "p", "d", "a", "t", "e", QUOTE, ",", QUOTE, "c",
         "o", "l", "l", "e", "c", "t", "i", "o", "n", QUOTE, ":",
         QUOTE, "u", "s", "e", "r", "s", QUOTE, ",", QUOTE, "i",
         "d", QUOTE, ":", QUOTE, "7", QUOTE, ",", QUOTE, "d",
         "a", "t", "a", QUOTE, ":", "{", QUOTE, "n", "a", "m",
         "e", QUOTE, ":", QUOTE, "a", QUOTE, ",", QUOTE, "l",
         "i", "m", "i", "t", QUOTE, ":", "1", "}", "}", NL>>

\* {"action":"upsert","collection":"users","id":null,"data":{"name":"a"}} and
\* a newline
UpsertLine ==
    <<"{", QUOTE, "a", "c", "t", "i", "o", "n", QUOTE, ":", QUOTE,
         "u", "p", "s", "e", "r", "t", QUOTE, ",", QUOTE, "c",
         "o", "l", "l", "e", "c", "t", "i", "o", "n", QUOTE, ":",
         QUOTE, "u", "s", "e", "r", "s", QUOTE, ",", QUOTE, "i",
         "d", QUOTE, ":", "n", "u", "l", "l", ",", QUOTE, "d",
         "a", "t", "a", QUOTE, ":", "{", QUOTE, "n", "a", "m",
         "e", QUOTE, ":", QUOTE, "a", QUOTE, "}", "}", NL>>

\* update with a data object carrying _id between two other properties, then
\* upsert with no id and _id first: both lines are without _id, the second
\* with id null.
C20_Witness ==
    /\ sent = <<UpdateLine, UpsertLine>>
    /\ lastEvent.call = [op |-> "upsert",
                         args |-> <<JSString(<<"u", "s", "e", "r", "s">>), JSUndefined,
                                    JSObject(<<Member(UNDERSCORE_ID, JSString(<<"7">>)),
                                               Member(NAME_KEY, JSString(<<"a">>))>>)>>]

\* C21: an error event handled while commands are pending rejects the oldest
\* one with the emitted error and removes it; the other entries stay in the
\* queue in their order and their promises stay pending.
C21_ErrorTakesOldest ==
    [][(lastEvent'.type = "error" /\ responseQueue # <<>>) =>
          /\ responseQueue' = Tail(responseQueue)
          /\ lastEvent'.done = <<Head(responseQueue)>>
          /\ cmds'[Head(responseQueue)].p = RejectedWith(lastEvent'.err)
          /\ \A k \in 2..Len(responseQueue) :
                /\ cmds[responseQueue[k]].p = NewPromise
                /\ cmds'[responseQueue[k]].p = NewPromise
          /\ connects' = connects]_vars

\* An error event rejected the older of two pending commands; the younger
\* stayed queued and a line that arrived afterwards resolved it.
C21_Witness ==
    /\ Len(cmds) = 2
    /\ cmds[1].p = RejectedWith("ECONNRESET")
    /\ cmds[2].p = ResolvedWith(12)
    /\ Len(emitted) = 1 /\ emitted[1].cmd = 2
    /\ lastEvent.type = "data"
    /\ responseQueue = <<>>

\* C22: a close event clears isConnected and nothing else: the queue, the
\* buffer and every promise are as they were and no command is completed.
C22_CloseOnlyFlips ==
    [][lastEvent'.type = "close" =>
          /\ ~isConnected'
          /\ responseQueue' = responseQueue
          /\ streamBuffer' = streamBuffer
          /\ cmds' = cmds
          /\ connects' = connects
          /\ emitted' = emitted
          /\ lastEvent'.done = <<>>
          /\ lastEvent'.logs = <<>>]_vars

\* A close event was handled with two commands pending and half a line in
\* the buffer, and all of it is still there.
C22_Witness ==
    /\ lastEvent.type = "close"
    /\ ~isConnected
    /\ responseQueue = <<1, 2>>
    /\ streamBuffer = <<"1">>
    /\ \A i \in 1..2 : cmds[i].p = NewPromise

\* C23: when a close event has just been handled and no error event has
\* been handled before it, the pending queue is empty.
C23_NothingPendingAtClose ==
    (lastEvent.type = "close" /\ ~errored) => responseQueue = <<>>

\* C24: when a data event completes more non-blank lines than there are
\* pending commands, the lines beyond the pending commands are dropped: they
\* settle no promise, print nothing, are not left in the buffer and the
\* queue ends empty; and a command is completed by a line only in a data
\* event whose chunk brings that line's newline.
C24_UnsolicitedLineDropped ==
    [][lastEvent'.type = "data" =>
          LET text == streamBuffer \o ChunkOf(received, received')
              ms == MessagesOf(text)
              n == Len(responseQueue)
          IN /\ Len(ms) > n =>
                   /\ responseQueue' = <<>>
                   /\ lastEvent'.done = responseQueue
                   /\ Len(lastEvent'.logs) <= n
                   /\ emitted' = emitted \o
                         [k \in 1..Len(ms) |->
                             [line |-> ms[k],
                              cmd |-> IF k <= n THEN responseQueue[k] ELSE 0]]
                   /\ \A i \in 1..Len(cmds) :
                         (\A k \in 1..n : responseQueue[k] # i) => cmds'[i] = cmds[i]
                   /\ connects' = connects
                   /\ streamBuffer' = FragmentOf(text)
             /\ lastEvent'.done # <<>> =>
                   \E j \in 1..Len(ChunkOf(received, received')) :
                      ChunkOf(received, received')[j] = NL]_vars

\* A line arrived while nothing was pending; the command dispatched after
\* it was answered by the next line, not by the dropped one.
C24_Witness ==
    /\ Len(emitted) = 2
    /\ emitted[1] = [line |-> <<"1">>, cmd |-> 0]
    /\ emitted[2] = [line |-> <<"1", "2">>, cmd |-> 1]
    /\ cmds[1].p = ResolvedWith(12)
    /\ responseQueue = <<>>

\* C25: the blank lines a data event completes remove no entry and complete
\* no command: the event takes as many entries from the front of the queue
\* as it completes non-blank lines (or all of them, if fewer are pending),
\* pairs the k-th of those lines with the k-th entry, and changes nothing
\* when every line it completes is blank.
C25_BlankLinesSkipped ==
    [][lastEvent'.type = "data" =>
          LET text == streamBuffer \o ChunkOf(received, received')
              all == WireScan(text, <<>>, <<>>).lines
              nb == SelectSeq(all, HasText)
              n == Min(Len(nb), Len(responseQueue))
          IN /\ responseQueue' = SubSeq(responseQueue, n + 1, Len(responseQueue))
             /\ lastEvent'.done = SubSeq(responseQueue, 1, n)
             /\ \A k \in 1..n : cmds'[responseQueue[k]].p = Owed(nb[k])
             /\ nb = <<>> =>
                   /\ cmds' = cmds
                   /\ emitted' = emitted
                   /\ responseQueue' = responseQueue]_vars

\* One chunk carried a line of one space and then the line "12": the blank
\* line took nothing and the only pending command was resolved with 12.
C25_Witness ==
    /\ received = <<SP, NL, "1", "2", NL>>
    /\ lastEvent.type = "data" /\ lastEvent.size = 5
    /\ lastEvent.done = <<1>>
    /\ emitted = <<[line |-> <<"1", "2">>, cmd |-> 1]>>
    /\ cmds[1].p = ResolvedWith(12)

\* C26: after every data event the stream buffer is the text after the last
\* newline of the previous buffer followed by the chunk (all of it when it
\* has no newline), so it holds no newline; the lines handed on are the
\* non-blank lines before that last newline, the retained text not among
\* them; and when the accumulated text has no newline nothing is completed.
C26_BufferIsLastFragment ==
    [][lastEvent'.type = "data" =>
          LET text == streamBuffer \o ChunkOf(received, received')
              nls == {j \in 1..Len(text) : text[j] = NL}
              last == IF nls = {} THEN 0
                      ELSE CHOOSE j \in nls : \A k \in nls : k <= j
          IN /\ streamBuffer' = SubSeq(text, last + 1, Len(text))
             /\ \A j \in 1..Len(streamBuffer') : streamBuffer'[j] # NL
             /\ [k \in 1..(Len(emitted') - Len(emitted)) |->
                    emitted'[Len(emitted) + k].line]
                   = MessagesOf(SubSeq(text, 1, last))
             /\ SubSeq(emitted', 1, Len(emitted)) = emitted
             /\ nls = {} =>
                   /\ cmds' = cmds
                   /\ responseQueue' = responseQueue
                   /\ emitted' = emitted
                   /\ lastEvent'.done = <<>>
                   /\ lastEvent'.logs = <<>>]_vars

\* A chunk completed the line "12" and left "1" in the buffer while a second
\* command is still pending: the fragment answered nothing.
C26_Witness ==
    /\ lastEvent.type = "data"
    /\ lastEvent.done = <<1>>
    /\ received = <<"1", "2", NL, "1">>
    /\ streamBuffer = <<"1">>
    /\ responseQueue = <<2>>
    /\ cmds[1].p = ResolvedWith(12)
    /\ cmds[2].p = NewPromise

\* C27: an error event prints the hint exactly when the error is
\* ECONNREFUSED, pending commands or not; any other error prints the socket
\* error diagnostic and no hint, and ECONNREFUSED does not print that
\* diagnostic.
C27_HintIffRefused ==
    [][lastEvent'.type = "error" =>
          /\ InLogs(HintLine, lastEvent'.logs) <=> lastEvent'.err = "ECONNREFUSED"
          /\ InLogs("ERROR Socket error occurred", lastEvent'.logs)
                <=> lastEvent'.err # "ECONNREFUSED"
          /\ lastEvent'.err # "ECONNREFUSED" =>
                lastEvent'.logs = <<"ERROR Socket error occurred">>]_vars

\* ECONNREFUSED was handled while a command was pending: the command was
\* rejected with it and the hint was printed.
C27_Witness ==
    /\ lastEvent.type = "error"
    /\ lastEvent.err = "ECONNREFUSED"
    /\ lastEvent.done = <<1>>
    /\ cmds[1].p = RejectedWith("ECONNREFUSED")
    /\ InLogs(HintLine, lastEvent.logs)

\* C28: an error event handled while the queue is empty rejects a connect()
\* promise that is still pending with the error and leaves a settled one as
\* it was settled; it settles no command and changes neither the queue, the
\* buffer nor the handled lines, and the client is not connected after it.
C28_ErrorWithEmptyQueue ==
    [][(lastEvent'.type = "error" /\ responseQueue = <<>>) =>
          /\ \A i \in 1..Len(connects) :
                IF connects[i].st = "pending"
                THEN connects'[i] = RejectedWith(lastEvent'.err)
                ELSE /\ connects'[i].st = connects[i].st
                     /\ connects'[i].val = connects[i].val
                     /\ connects'[i].err = connects[i].err
          /\ Len(connects') = Len(connects)
          /\ cmds' = cmds
          /\ responseQueue' = <<>>
          /\ streamBuffer' = streamBuffer
          /\ emitted' = emitted
          /\ writes' = writes
          /\ lastEvent'.done = <<>>
          /\ ~isConnected']_vars

\* connect() had resolved and a command had been answered; a later error
\* found the queue empty and changed no settlement.
C28_Witness ==
    /\ lastEvent.type = "error"
    /\ Len(connects) = 1
    /\ connects[1].st = "resolved"
    /\ connects[1].calls = 2
    /\ Len(cmds) = 1
    /\ cmds[1].p = ResolvedWith(1)
    /\ ~isConnected

\* C29: every step leaves the queue as it was but for n entries taken from
\* its front and at most one new entry appended: n is 1 at most in an error
\* event, the number of non-blank lines completed at most in a data event,
\* and 0 in every other step (a dispatch, connect(), close() before and
\* after its await, a close event, the socket connecting); the entries taken
\* are settled by the step and the entries that stay are still pending.
C29_LeavesOnlyFromFront ==
    [][\E n \in 0..Len(responseQueue) :
          LET rest == SubSeq(responseQueue, n + 1, Len(responseQueue))
              ms == MessagesOf(streamBuffer \o ChunkOf(received, received'))
          IN /\ \/ responseQueue' = rest
                \/ /\ responseQueue' = Append(rest, Len(cmds) + 1)
                   /\ Len(cmds') = Len(cmds) + 1
                   /\ lastEvent'.type \in {"send", "closeCall"}
             /\ n > 0 =>
                   \/ lastEvent'.type = "error" /\ n = 1
                   \/ lastEvent'.type = "data" /\ n <= Len(ms)
             /\ \A k \in 1..n : cmds'[responseQueue[k]].p.st # "pending"
             /\ \A k \in (n + 1)..Len(responseQueue) :
                   /\ cmds[responseQueue[k]].p = NewPromise
                   /\ cmds'[responseQueue[k]].p = NewPromise]_vars

\* close() was called, count() was dispatched behind its exit request, the
\* exit request was answered and close() ended the socket: the count is
\* still queued and pending.
C29_Witness ==
    /\ lastEvent.type = "closeResume"
    /\ ends = 1
    /\ responseQueue = <<2>>
    /\ cmds[1].p.st = "resolved"
    /\ cmds[2].p = NewPromise

\* The client as it would be had every accepted command been dispatched
\* first and nothing been received yet.
BeforeDelivery ==
    [Client EXCEPT !.streamBuffer = <<>>,
                   !.responseQueue = AcceptedIds,
                   !.cmds = [i \in 1..Len(cmds) |->
                                IF cmds[i].accepted
                                THEN [accepted |-> TRUE, p |-> NewPromise]
                                ELSE cmds[i]],
                   !.emitted = <<>>,
                   !.done = <<>>,
                   !.logs = <<>>]

\* Every byte received so far, delivered as a single data event.
OneChunk == HandleStreamData(BeforeDelivery, ChunkToString(received))

C31_EventuallyAnswered ==
    /\ \A i \in 1..MaxCmds :
          (Len(cmds) >= i /\ cmds[i].accepted)
             ~> (Len(cmds) >= i /\ cmds[i].p.st = "resolved")
    /\ \A k \in 1..MaxCmds :
          (Len(closers) >= k /\ closers[k].st = "awaiting")
             ~> (Len(closers) >= k /\ closers[k].st = "resolved" /\ ends >= 1)

\* count() and then close() were called on the connected client; both
\* requests were answered, close() completed and ended the socket.
C31_Witness ==
    /\ Len(cmds) = 2
    /\ cmds[1].accepted /\ cmds[1].p = ResolvedWith(12)
    /\ cmds[2].accepted /\ cmds[2].p = ResolvedWith(1)
    /\ closers = <<[cmd |-> 2, st |-> "resolved"]>>
    /\ ends = 1
    /\ responseQueue = <<>>

\* The close() calls that failed.
Failed == { k \in 1..Len(closers) : closers[k].st = "rejected" }

\* C32: a close() whose exit request was rejected, by a transport error or
\* by a malformed reply line, fails with that rejection in the step that
\* resumes it, without ending the socket and without the termination log
\* line, and stays failed; a close() that resumes on a resolved exit request
\* ends the socket once; so the socket has been ended exactly as often as a
\* close() completed.
C32_FailedCloseEndsNothing ==
    /\ [](/\ \A k \in Failed :
                /\ cmds[closers[k].cmd].p.st = "rejected"
                /\ cmds[closers[k].cmd].p.err \in TransportErrors \cup {ErrMalformed}
          /\ ends = Len(closers) - Cardinality(Failed)
                       - Cardinality({ k \in 1..Len(closers) :
                                          closers[k].st = "awaiting" }))
    /\ [][\A k \in 1..Len(closers) :
             /\ closers[k].st = "rejected" => closers'[k].st = "rejected"
             /\ (closers[k].st = "awaiting" /\ closers'[k].st # "awaiting") =>
                   /\ lastEvent'.type = "closeResume"
                   /\ IF cmds[closers[k].cmd].p.st = "rejected"
                      THEN /\ closers'[k].st = "rejected"
                           /\ ends' = ends
                           /\ lastEvent'.logs = <<>>
                      ELSE /\ cmds[closers[k].cmd].p.st = "resolved"
                           /\ closers'[k].st = "resolved"
                           /\ ends' = ends + 1]_vars

\* The exit request of close() was answered by a malformed line: close()
\* failed with the malformed-JSON error and the socket was not ended.
C32_Witness ==
    /\ closers = <<[cmd |-> 1, st |-> "rejected"]>>
    /\ cmds[1].p = RejectedWith(ErrMalformed)
    /\ ends = 0
    /\ lastEvent.type = "closeResume"

\* C33: close() called while isConnected is false changes nothing: no
\* request is written or enqueued, no promise is created or settled, the
\* socket is not ended, no close() is left waiting, nothing is logged, and
\* the buffer and the flag are as before.
C33_CloseWhenNotConnected ==
    [][(lastEvent'.type = "closeCall" /\ ~isConnected) =>
          /\ UNCHANGED <<options, host, port, isConnected, responseQueue,
                         streamBuffer, connects, connecting, callbacks, cmds,
                         writes, sent, dials, closers, ends, received, emitted,
                         errored, closed>>
          /\ lastEvent'.done = <<>>
          /\ lastEvent'.logs = <<>>]_vars

\* Two commands were pending, an error event rejected the first, and
\* close() was then called: the second is still queued and pending, nothing
\* was written for close() and the socket was not ended.
C33_Witness ==
    /\ lastEvent.type = "closeCall"
    /\ errored /\ ~isConnected
    /\ Len(cmds) = 2
    /\ cmds[1].p.st = "rejected" /\ cmds[1].p.err \in TransportErrors
    /\ cmds[2].p = NewPromise
    /\ responseQueue = <<2>>
    /\ Len(writes) = 2
    /\ closers = <<>>
    /\ ends = 0

\* C34: a data event handled while isConnected is false (after an error or
\* a close event) is processed like any other: the non-blank lines it
\* completes take the oldest pending entries in order and settle them, the
\* rest of the text is buffered, and isConnected stays false.
C34_DataAfterFailure ==
    [][(lastEvent'.type = "data" /\ ~isConnected) =>
          LET text == streamBuffer \o ChunkOf(received, received')
              ms == MessagesOf(text)
              n == Min(Len(ms), Len(responseQueue))
          IN /\ errored \/ closed \/ connecting
             /\ lastEvent'.done = SubSeq(responseQueue, 1, n)
             /\ responseQueue' = SubSeq(responseQueue, n + 1, Len(responseQueue))
             /\ \A k \in 1..n : cmds'[responseQueue[k]].p = Owed(ms[k])
             /\ streamBuffer' = FragmentOf(text)
             /\ ~isConnected']_vars

\* Two commands were pending, ECONNREFUSED rejected the first, and the line
\* "1" that arrived afterwards resolved the second.
C34_Witness ==
    /\ lastEvent.type = "data"
    /\ errored /\ ~isConnected
    /\ Len(cmds) = 2
    /\ cmds[1].p = RejectedWith("ECONNREFUSED")
    /\ cmds[2].p = ResolvedWith(1)
    /\ emitted = <<[line |-> <<"1">>, cmd |-> 2]>>

\* No connect callback has run yet: no connect() promise is resolved.
NeverConnected ==
    /\ ~isConnected
    /\ \A i \in 1..Len(connects) : connects[i].st # "resolved"

\* C35: while the client has never been connected the queue is empty and no
\* command was accepted; an error event handled in such a state settles no
\* command and rejects every connect() promise that is pending.
C35_NothingPendingBeforeConnected ==
    /\ [](NeverConnected =>
             /\ responseQueue = <<>>
             /\ writes = <<>>
             /\ \A i \in 1..Len(cmds) :
                   ~cmds[i].accepted /\ cmds[i].p = RejectedWith(ErrNotConnected))
    /\ [][(lastEvent'.type = "error" /\ NeverConnected) =>
             /\ lastEvent'.done = <<>>
             /\ cmds' = cmds
             /\ responseQueue' = <<>>
             /\ \A i \in 1..Len(connects) :
                   connects[i].st = "pending" =>
                      connects'[i] = RejectedWith(lastEvent'.err)]_vars

\* A dispatch before the connection was refused with the not-connected
\* error, and the ECONNREFUSED that followed rejected connect().
C35_Witness ==
    /\ lastEvent.type = "error"
    /\ NeverConnected
    /\ connects = <<RejectedWith("ECONNREFUSED")>>
    /\ Len(cmds) = 1
    /\ ~cmds[1].accepted
    /\ cmds[1].p = RejectedWith(ErrNotConnected)
    /\ responseQueue = <<>>

\* C36: every chunk is decoded on its own and appended to the buffer, and
\* the lines handed on are the lines of the text the server sent, that is
\* the non-blank lines of the decoding of all received bytes together, also
\* when a chunk ended inside a character of two bytes.
C36_MessageAsSent ==
    /\ []([k \in 1..Len(emitted) |-> emitted[k].line]
             = MessagesOf(ChunkToString(received)))
    /\ [][lastEvent'.type = "data" =>
             streamBuffer' =
                FragmentOf(streamBuffer
                              \o ChunkToString(ChunkOf(received, received')))]_vars

\* C37: a dispatch accepted by sendCommand appends the one new entry at the
\* back of the queue and leaves the entries before it, the stream buffer,
\* isConnected and every earlier promise as they were; a data event leaves
\* isConnected as it was and the queue a suffix of what it was.
C37_DispatchAppendsOne ==
    [][/\ (lastEvent'.type = "send" /\ isConnected) =>
             /\ responseQueue' = Append(responseQueue, Len(cmds) + 1)
             /\ Len(cmds') = Len(cmds) + 1
             /\ cmds'[Len(cmds) + 1] = [accepted |-> TRUE, p |-> NewPromise]
             /\ \A i \in 1..Len(cmds) : cmds'[i] = cmds[i]
             /\ streamBuffer' = streamBuffer
             /\ isConnected'
             /\ connects' = connects
             /\ emitted' = emitted
       /\ lastEvent'.type = "data" =>
             /\ isConnected' = isConnected
             /\ \E n \in 0..Len(responseQueue) :
                   responseQueue' = SubSeq(responseQueue, n + 1, Len(responseQueue))]_vars

\* A second command was dispatched while the first was pending and the
\* buffer held the beginning of a line: the queue is the first then the
\* second and the buffer is untouched.
C37_Witness ==
    /\ lastEvent.type = "send"
    /\ isConnected
    /\ responseQueue = <<1, 2>>
    /\ streamBuffer = <<"1">>
    /\ received = <<"1">>
    /\ cmds[1].p = NewPromise /\ cmds[2].p = NewPromise

====
